---- MODULE Spec2Model ----
(***************************************************************************)
(* Model of buffcat's output_to_file (src/src/main.rs): the layout         *)
(* planning, the buffer pool with its per-identifier counts, the two       *)
(* bounded multiqueue channels, the producer's scheduling and drain loops  *)
(* and the worker threads writing through their own BufWriter handles.     *)
(*                                                                         *)
(* Source bytes are modelled as distinguishable tokens (SrcByte) and the   *)
(* zero byte as 0, so a byte landing at a wrong offset is visible.         *)
(* Sizes are scaled down: the page size and BufWriter's internal capacity  *)
(* keep their 1:2 ratio (4096 : 8192).                                     *)
(***************************************************************************)
EXTENDS Integers, Sequences, FiniteSets, TLC

\* ---- bounds of the explored configurations ----
MaxFiles == 2
MaxLen == 5
MaxRepeat == 2
MaxThreads == 2
MaxMem == 5

\* ---- program constants (scaled) ----
\* page_size::get(), main.rs:89 (4096 on the usual target, scaled to 4)
PageSize == 4
\* std::io::BufWriter's default capacity used by BufWriter::new, main.rs:121
\* (8192, scaled to 8)
BufWriterCap == 8

\* usize::max_value() passed when --max-mem-usage is absent (main.rs:224):
\* any value above every possible total behaves the same in the code.
NoCeiling == MaxFiles * MaxLen + 1

VARIABLES
    cfg,                \* the arguments of output_to_file
    pc,                 \* position of the thread running output_to_file
    outCreated,         \* the output file exists (File::create succeeded)
    outFile,            \* contents of the output file, a sequence of bytes
    cursors,            \* read cursor of every input File
    buf_size,
    n_bufs,
    buf_alloc_counts,   \* buf_id -> count
    buffer_free,        \* contents of the buffer_free_notify/events queue
    task_queue,         \* contents of the task_sender/task_recvr queue
    total_written,
    cur,                \* locals of the scheduling loop while it sends
    n_outstanding_buffers,
    workers,            \* per worker thread: position, task, BufWriter
    enqueued            \* every task sent so far, in order (history)

vars == <<cfg, pc, outCreated, outFile, cursors, buf_size, n_bufs,
          buf_alloc_counts, buffer_free, task_queue, total_written, cur,
          n_outstanding_buffers, workers, enqueued>>

\* ---------------------------------------------------------------------
\* Pure helpers
\* ---------------------------------------------------------------------
Min(a, b) == IF a < b THEN a ELSE b

RECURSIVE SumTo(_, _)
SumTo(s, n) == IF n = 0 THEN 0 ELSE s[n] + SumTo(s, n - 1)

RECURSIVE MaxOf(_, _)
MaxOf(s, n) == IF n = 1 THEN s[1]
               ELSE IF s[n] > MaxOf(s, n - 1) THEN s[n] ELSE MaxOf(s, n - 1)

RECURSIVE NextPow2From(_, _)
NextPow2From(p, n) == IF p >= n THEN p ELSE NextPow2From(2 * p, n)

\* multiqueue rounds the requested capacity up to a power of two
QueueCapacity(n) == NextPow2From(1, n)

Zeros(n) == [k \in 1..n |-> 0]

\* byte b (0-based) of source fid (1-based): a token distinct from 0
SrcByte(fid, b) == fid * (MaxLen + 1) + b + 1

\* ---------------------------------------------------------------------
\* Layout planning, main.rs:68-78
\* ---------------------------------------------------------------------
file_sizes == cfg.files
NFiles == Len(cfg.files)
\* prefix_lens[fid] for the 1-based fid: sum of the sizes of earlier files
prefix_lens(fid) == SumTo(file_sizes, fid - 1)
total_each == SumTo(file_sizes, NFiles)
total_len == total_each * cfg.repeat_each * cfg.repeat_all

\* ---------------------------------------------------------------------
\* The output file: positioned write, extending the file when needed
\* ---------------------------------------------------------------------
WriteAt(file, off, data) ==
    LET newLen == IF off + Len(data) > Len(file) THEN off + Len(data)
                  ELSE Len(file)
    IN  IF Len(data) = 0 THEN file
        ELSE [k \in 1..newLen |->
                IF k > off /\ k <= off + Len(data) THEN data[k - off]
                ELSE IF k <= Len(file) THEN file[k] ELSE 0]

NoPending == [off |-> 0, data |-> <<>>]
NoTask == [offset |-> 0, buf_id |-> 0, buffer |-> <<>>]
NoCur == [buf_id |-> 0, fid |-> 0, foffset |-> 0, buf |-> <<>>,
          i |-> 0, r |-> 0, offset |-> 0]

\* BufWriter::flush_buf: the buffered bytes go to the file at the position
\* they were written for
Flush(file, bw) == WriteAt(file, bw.off, bw.data)

Configs ==
    [files : UNION {[1..n -> 0..MaxLen] : n \in 0..MaxFiles},
     repeat_each : 1..MaxRepeat,
     repeat_all : 1..MaxRepeat,
     nthreads : 1..MaxThreads,
     max_mem_usage : (1..MaxMem) \cup {NoCeiling}]

Init ==
    /\ cfg \in Configs
    /\ pc = "start"
    /\ outCreated = FALSE
    /\ outFile = <<>>
    /\ cursors = [f \in 1..NFiles |-> 0]
    /\ buf_size = 0
    /\ n_bufs = 0
    /\ buf_alloc_counts = <<>>
    /\ buffer_free = <<>>
    /\ task_queue = <<>>
    /\ total_written = 0
    /\ cur = NoCur
    /\ n_outstanding_buffers = 0
    /\ workers = [w \in 1..cfg.nthreads |->
                    [st |-> "unspawned", task |-> NoTask, bw |-> NoPending]]
    /\ enqueued = <<>>

\* an output created but never sized
CreateOutput_NoSetLen ==
    /\ pc = "start"
    /\ outCreated' = TRUE
    /\ outFile' = <<>>
    /\ pc' = "configure"
    /\ UNCHANGED <<cfg, cursors, buf_size, n_bufs, buf_alloc_counts,
                   buffer_free, task_queue, total_written, cur,
                   n_outstanding_buffers, workers, enqueued>>

\* main.rs:64-83: open the inputs, plan the layout, create the output and
\* set its length
CreateOutput ==
    /\ pc = "start"
    /\ outCreated' = TRUE
    /\ outFile' = Zeros(total_len)
    /\ pc' = "configure"
    /\ UNCHANGED <<cfg, cursors, buf_size, n_bufs, buf_alloc_counts,
                   buffer_free, task_queue, total_written, cur,
                   n_outstanding_buffers, workers, enqueued>>


\* a comparison that also takes a ceiling equal to the sum as unlimited
unlimited_mem_AtLeast == cfg.max_mem_usage >= total_each

\* main.rs:85: the ceiling is compared with the sum of the source lengths
unlimited_mem == cfg.max_mem_usage > total_each

\* main.rs:86-90
ChooseBufSize == IF unlimited_mem THEN MaxOf(file_sizes, NFiles) ELSE PageSize

\* main.rs:91-95, the condition of the assert!
CeilingAccepted(bs) == bs < cfg.max_mem_usage

\* a pool sized from the sources alone, forgetting the ceiling
ChooseNBufs_NoCeiling(bs) == total_each \div bs

\* main.rs:97-101
ChooseNBufs(bs) == Min(total_each, cfg.max_mem_usage) \div bs

\* main.rs:102-103, capacity asked for the free-buffer queue
FreeQueueCap(nb) == QueueCapacity(nb * cfg.repeat_each)

\* main.rs:104-105, capacity asked for the task queue
queue_depth == cfg.nthreads * 2
TaskQueueCap == QueueCapacity(queue_depth)

\* a pool whose buffers start with no count to take the first
\* notification from
InitialCount_None == 1 - 1

\* main.rs:107-112: every buffer starts with count 1 and one notification
InitialCount == 1

\* main.rs:85-112: choose the buffer size, check it against the ceiling,
\* size the pool and the queues, mark every buffer ready.  The unwrap() of
\* max() on an empty list, the failed assert! and the division by a zero
\* buf_size all panic.
Configure ==
    /\ pc = "configure"
    /\ IF (unlimited_mem /\ NFiles = 0)
          \/ ~CeilingAccepted(ChooseBufSize)
          \/ ChooseBufSize = 0
       THEN /\ pc' = "panic"
            /\ UNCHANGED <<buf_size, n_bufs, buf_alloc_counts, buffer_free>>
       ELSE /\ buf_size' = ChooseBufSize
            /\ n_bufs' = ChooseNBufs(ChooseBufSize)
            /\ buf_alloc_counts' =
                  [b \in 0..(ChooseNBufs(ChooseBufSize) - 1) |-> InitialCount]
            /\ buffer_free' = [k \in 1..ChooseNBufs(ChooseBufSize) |-> k - 1]
            /\ pc' = "spawn"
    /\ UNCHANGED <<cfg, outCreated, outFile, cursors, task_queue,
                   total_written, cur, n_outstanding_buffers, workers,
                   enqueued>>

\* main.rs:114-137: start nthreads workers, each with its own handle on the
\* output, then drop the spare queue handles
Spawn ==
    /\ pc = "spawn"
    /\ workers' = [w \in DOMAIN workers |-> [workers[w] EXCEPT !.st = "idle"]]
    /\ total_written' = 0
    /\ pc' = "recv"
    /\ UNCHANGED <<cfg, outCreated, outFile, cursors, buf_size, n_bufs,
                   buf_alloc_counts, buffer_free, task_queue, cur,
                   n_outstanding_buffers, enqueued>>

\* ---------------------------------------------------------------------
\* Producer: scheduling loop, main.rs:138-171
\* ---------------------------------------------------------------------
\* worker threads still holding their clones of the queue handles
Alive == {w \in DOMAIN workers : workers[w].st \in {"idle", "task", "written"}}

\* a pool that takes every notification for the last one
IsFree_AnyNotification(count) == count >= 0

\* main.rs:140, 181
IsFree(count) == count = 0

\* a read loop that does not skip a read of 0 bytes
Readable_EmptyReadKept == {f \in 1..NFiles : cursors[f] <= file_sizes[f]}

\* main.rs:142-148: sources whose read returns nbytes > 0
Readable == {f \in 1..NFiles : cursors[f] < file_sizes[f]}
\* a read loop that takes the last source with data left
FirstReadable_Last == CHOOSE f \in Readable : \A g \in Readable : f >= g

FirstReadable == CHOOSE f \in Readable : \A g \in Readable : f <= g

\* main.rs:145: read() of a regular file fills the buffer up to end of file
ReadLen(fid) == Min(buf_size, file_sizes[fid] - cursors[fid])

\* main.rs:141,145: a zeroed buffer of buf_size bytes whose first nbytes
\* are the source's bytes from the cursor on
ReadChunk(fid) ==
    [k \in 1..buf_size |->
        IF k <= ReadLen(fid) THEN SrcByte(fid, cursors[fid] + k - 1) ELSE 0]

\* a count that forgets the global repetitions
RefCount_EachOnly == cfg.repeat_each

\* main.rs:151
RefCount == cfg.repeat_each * cfg.repeat_all

\* main.rs:153
BaseOffset(i, fid) == total_each * i + prefix_lens(fid) * cfg.repeat_each

\* main.rs:160: what one sent task adds to total_written
Scheduled(buf) == Len(buf)

\* main.rs:173-177: count the buffers with a nonzero count and enter the
\* drain loop, which is left at once when there is none
EnterDrain(counts) ==
    LET n == Cardinality({b \in DOMAIN counts : counts[b] > 0})
    IN  /\ n_outstanding_buffers' = n
        /\ pc' = IF n = 0 THEN "done" ELSE "drain"

\* main.rs:168-170: leave the scheduling loop once everything is scheduled
EndOfIteration(tw, counts) ==
    IF tw = total_len
    THEN EnterDrain(counts)
    ELSE pc' = "recv" /\ UNCHANGED n_outstanding_buffers

\* main.rs:138-151 (and 168 when nothing is read): take the next free
\* notification, decrement the count, and when it reaches zero read the
\* next chunk of the first source that still has data
Recv ==
    /\ pc = "recv"
    /\ buffer_free # <<>>
    /\ LET buf_id == Head(buffer_free)
           dec == buf_alloc_counts[buf_id] - 1
       IN  /\ buffer_free' = Tail(buffer_free)
           /\ IF buf_alloc_counts[buf_id] = 0
              THEN \* usize underflow: panics (debug build)
                   /\ pc' = "panic"
                   /\ UNCHANGED <<buf_alloc_counts, cursors, cur,
                                  n_outstanding_buffers>>
              ELSE IF IsFree(dec) /\ Readable # {}
              THEN LET fid == FirstReadable
                   IN  /\ cursors' = [cursors EXCEPT ![fid] = @ + ReadLen(fid)]
                       /\ buf_alloc_counts' =
                             [buf_alloc_counts EXCEPT ![buf_id] = RefCount]
                       /\ cur' = [buf_id |-> buf_id, fid |-> fid,
                                  foffset |-> cursors[fid],
                                  buf |-> ReadChunk(fid), i |-> 0, r |-> 0,
                                  offset |-> BaseOffset(0, fid)]
                       /\ pc' = "send"
                       /\ UNCHANGED n_outstanding_buffers
              ELSE /\ buf_alloc_counts' =
                         [buf_alloc_counts EXCEPT ![buf_id] = dec]
                   /\ EndOfIteration(total_written, buf_alloc_counts')
                   /\ UNCHANGED <<cursors, cur>>
    /\ UNCHANGED <<cfg, outCreated, outFile, buf_size, n_bufs, task_queue,
                   total_written, workers, enqueued>>

\* main.rs:152-170: one successful try_send of the scheduling loop; a full
\* queue (or one without receivers) makes try_send fail and the loop spin
Send ==
    /\ pc = "send"
    /\ Len(task_queue) < TaskQueueCap
    /\ Alive # {}
    /\ task_queue' = Append(task_queue,
                            [offset |-> cur.offset + cur.foffset,
                             buf_id |-> cur.buf_id, buffer |-> cur.buf])
    /\ enqueued' = Append(enqueued,
                          [offset |-> cur.offset + cur.foffset,
                           len |-> Len(cur.buf), buf_id |-> cur.buf_id,
                           fid |-> cur.fid, foffset |-> cur.foffset,
                           i |-> cur.i, r |-> cur.r])
    /\ total_written' = total_written + Scheduled(cur.buf)
    /\ IF cur.r + 1 < cfg.repeat_each
       THEN /\ cur' = [cur EXCEPT !.r = @ + 1,
                                  !.offset = @ + file_sizes[cur.fid]]
            /\ UNCHANGED <<pc, n_outstanding_buffers>>
       ELSE IF cur.i + 1 < cfg.repeat_all
       THEN /\ cur' = [cur EXCEPT !.i = @ + 1, !.r = 0,
                                  !.offset = BaseOffset(cur.i + 1, cur.fid)]
            /\ UNCHANGED <<pc, n_outstanding_buffers>>
       ELSE /\ cur' = NoCur
            /\ EndOfIteration(total_written', buf_alloc_counts)
    /\ UNCHANGED <<cfg, outCreated, outFile, cursors, buf_size, n_bufs,
                   buf_alloc_counts, buffer_free, workers>>

\* main.rs:177-191: the drain loop, one received notification
Drain ==
    /\ pc = "drain"
    /\ buffer_free # <<>>
    /\ LET buf_id == Head(buffer_free)
           dec == buf_alloc_counts[buf_id] - 1
           left == IF IsFree(dec) THEN n_outstanding_buffers - 1
                   ELSE n_outstanding_buffers
       IN  /\ buffer_free' = Tail(buffer_free)
           /\ IF buf_alloc_counts[buf_id] = 0
              THEN /\ pc' = "panic"
                   /\ UNCHANGED <<buf_alloc_counts, n_outstanding_buffers>>
              ELSE /\ buf_alloc_counts' =
                         [buf_alloc_counts EXCEPT ![buf_id] = dec]
                   /\ n_outstanding_buffers' = left
                   /\ pc' = IF left = 0 THEN "done" ELSE "drain"
    /\ UNCHANGED <<cfg, outCreated, outFile, cursors, buf_size, n_bufs,
                   task_queue, total_written, cur, workers, enqueued>>

\* main.rs:138 and 189: with every worker gone the free-buffer queue is
\* disconnected; the iteration ends and the function returns Ok(())
RecvDisconnected ==
    /\ pc \in {"recv", "drain"}
    /\ buffer_free = <<>>
    /\ Alive = {}
    /\ n_outstanding_buffers' =
          IF pc = "recv"
          THEN Cardinality({b \in DOMAIN buf_alloc_counts :
                              buf_alloc_counts[b] > 0})
          ELSE n_outstanding_buffers
    /\ pc' = "done"
    /\ UNCHANGED <<cfg, outCreated, outFile, cursors, buf_size, n_bufs,
                   buf_alloc_counts, buffer_free, task_queue, total_written,
                   cur, workers, enqueued>>


\* ---------------------------------------------------------------------
\* Worker threads, main.rs:123-132
\* ---------------------------------------------------------------------
\* main.rs:124: take the next task from the queue
WorkerRecv(w) ==
    /\ workers[w].st = "idle"
    /\ task_queue # <<>>
    /\ workers' = [workers EXCEPT ![w].st = "task", ![w].task = Head(task_queue)]
    /\ task_queue' = Tail(task_queue)
    /\ UNCHANGED <<cfg, pc, outCreated, outFile, cursors, buf_size, n_bufs,
                   buf_alloc_counts, buffer_free, total_written, cur,
                   n_outstanding_buffers, enqueued>>

\* BufWriter::write_all after a seek (the internal buffer is empty): data
\* shorter than the capacity is kept in the buffer, longer data goes
\* straight to the file
Buffered(data) == Len(data) < BufWriterCap

\* main.rs:125-127: seek (BufWriter::seek first writes out what it holds),
\* then write_all of the whole buffer
WorkerWrite(w) ==
    /\ workers[w].st = "task"
    /\ LET t == workers[w].task
           flushed == Flush(outFile, workers[w].bw)
       IN  IF Buffered(t.buffer)
           THEN /\ outFile' = flushed
                /\ workers' = [workers EXCEPT
                                 ![w].st = "written",
                                 ![w].bw = [off |-> t.offset, data |-> t.buffer]]
           ELSE /\ outFile' = WriteAt(flushed, t.offset, t.buffer)
                /\ workers' = [workers EXCEPT ![w].st = "written",
                                              ![w].bw = NoPending]
    /\ UNCHANGED <<cfg, pc, outCreated, cursors, buf_size, n_bufs,
                   buf_alloc_counts, buffer_free, task_queue, total_written,
                   cur, n_outstanding_buffers, enqueued>>

\* main.rs:128: one successful try_send of the buffer identifier; a full
\* queue makes the worker spin
WorkerNotify(w) ==
    /\ workers[w].st = "written"
    /\ Len(buffer_free) < FreeQueueCap(n_bufs)
    /\ buffer_free' = Append(buffer_free, workers[w].task.buf_id)
    /\ workers' = [workers EXCEPT ![w].st = "idle", ![w].task = NoTask]
    /\ UNCHANGED <<cfg, pc, outCreated, outFile, cursors, buf_size, n_bufs,
                   buf_alloc_counts, task_queue, total_written, cur,
                   n_outstanding_buffers, enqueued>>

\* main.rs:124,131: the task queue is disconnected (task_sender is dropped
\* when output_to_file returns) and empty: the loop ends, the thread
\* returns Ok and dropping the BufWriter writes out what it holds
WorkerExit(w) ==
    /\ workers[w].st = "idle"
    /\ task_queue = <<>>
    /\ pc \in {"done", "panic"}
    /\ outFile' = Flush(outFile, workers[w].bw)
    /\ workers' = [workers EXCEPT ![w].st = "exited", ![w].bw = NoPending]
    /\ UNCHANGED <<cfg, pc, outCreated, cursors, buf_size, n_bufs,
                   buf_alloc_counts, buffer_free, task_queue, total_written,
                   cur, n_outstanding_buffers, enqueued>>

\* main.rs:125-126: seek or write_all returns Err; `?` ends the thread
\* without a notification.  Dropping the BufWriter tries once more to write
\* out what it holds, which may or may not succeed.
WorkerFail(w) ==
    /\ workers[w].st = "task"
    /\ \E ok \in BOOLEAN :
          outFile' = IF ok THEN Flush(outFile, workers[w].bw) ELSE outFile
    /\ workers' = [workers EXCEPT ![w].st = "failed", ![w].task = NoTask,
                                  ![w].bw = NoPending]
    /\ UNCHANGED <<cfg, pc, outCreated, cursors, buf_size, n_bufs,
                   buf_alloc_counts, buffer_free, task_queue, total_written,
                   cur, n_outstanding_buffers, enqueued>>

Producer == CreateOutput \/ Configure \/ Spawn \/ Recv \/ Send \/ Drain

Worker(w) == WorkerRecv(w) \/ WorkerWrite(w) \/ WorkerNotify(w) \/ WorkerExit(w)

\* runs without I/O errors
Next ==
    \/ CreateOutput
    \/ Configure
    \/ Spawn
    \/ Recv
    \/ Send
    \/ Drain
    \/ \E w \in DOMAIN workers : WorkerRecv(w)
    \/ \E w \in DOMAIN workers : WorkerWrite(w)
    \/ \E w \in DOMAIN workers : WorkerNotify(w)
    \/ \E w \in DOMAIN workers : WorkerExit(w)

Spec == Init /\ [][Next]_vars

\* runs in which a worker's seek or write may fail
NextErr ==
    \/ Next
    \/ \E w \in DOMAIN workers : WorkerFail(w)
    \/ RecvDisconnected

SpecErr == Init /\ [][NextErr]_vars

\* the scheduling the threads get: the producer and every worker keep
\* running while they have a step to take
FairSpec ==
    /\ Init
    /\ [][Next]_vars
    /\ WF_vars(Producer)
    /\ \A w \in 1..MaxThreads : WF_vars(w \in DOMAIN workers /\ Worker(w))

\* ---------------------------------------------------------------------
\* Properties
\* ---------------------------------------------------------------------
Returned == pc = "done"

\* every worker thread has ended and its BufWriter has been dropped
AllWorkersExited == \A w \in DOMAIN workers : workers[w].st = "exited"

\* nothing can happen any more: every thread has ended or is blocked
Quiescent == ~ENABLED Next

\* the destination of byte b of source f in copy r of global pass g (spec 3)
PlannedOffset(g, f, r, b) ==
    g * (total_each * cfg.repeat_each) + prefix_lens(f) * cfg.repeat_each
      + r * file_sizes[f] + b

\* C1: after a run that returned without I/O error (and whose workers have
\* ended, so that nothing is left in a BufWriter), for every g < R_all,
\* source f, r < R_each and b < len[f] the output byte at the planned
\* offset is byte b of source f.
C1_ContentAtPlannedOffsets ==
    (Returned /\ AllWorkersExited) =>
        \A g \in 0..(cfg.repeat_all - 1) : \A f \in 1..NFiles :
          \A r \in 0..(cfg.repeat_each - 1) : \A b \in 0..(file_sizes[f] - 1) :
             /\ PlannedOffset(g, f, r, b) < Len(outFile)
             /\ outFile[PlannedOffset(g, f, r, b) + 1] = SrcByte(f, b)

\* C2: once the output has been created and sized, its length is exactly
\* (sum of the source lengths) * R_each * R_all, whatever the workers wrote.
C2_OutputLengthIsPlanned ==
    outCreated => Len(outFile) = total_each * cfg.repeat_each * cfg.repeat_all

\* the scenario of C3: sources of 3 and 5 bytes, R_each = 2, R_all = 1, one
\* worker, no ceiling
IsScenario35 ==
    /\ cfg.files = <<3, 5>>
    /\ cfg.repeat_each = 2
    /\ cfg.repeat_all = 1
    /\ cfg.nthreads = 1
    /\ cfg.max_mem_usage = NoCeiling

Expected35 ==
    [k \in 1..16 |->
        IF k <= 3 THEN SrcByte(1, k - 1)
        ELSE IF k <= 6 THEN SrcByte(1, k - 4)
        ELSE IF k <= 11 THEN SrcByte(2, k - 7)
        ELSE SrcByte(2, k - 12)]

\* C3: in the scenario the run terminates (when nothing can happen any more
\* the function has returned) with the 16 bytes source1, source1, source2,
\* source2 in the output.
C3_Scenario35 ==
    (IsScenario35 /\ Quiescent) => (Returned /\ outFile = Expected35)

TaskRange(t) == t.offset .. (t.offset + t.len - 1)

\* C4: the byte ranges of the tasks enqueued so far are pairwise disjoint,
\* and once the run has returned their union is [0, total_output_size).
C4_TasksTileOutput ==
    /\ \A j, k \in 1..Len(enqueued) :
          j < k => TaskRange(enqueued[j]) \cap TaskRange(enqueued[k]) = {}
    /\ Returned =>
          UNION {TaskRange(enqueued[k]) : k \in 1..Len(enqueued)}
             = 0..(total_len - 1)

\* the step in which the producer reads a new chunk under identifier b
Refills(b) == pc = "recv" /\ pc' = "send" /\ cur'.buf_id = b

\* a task of b is in the task queue or in a worker that has not written it
Referenced(b) ==
    \/ \E k \in 1..Len(task_queue) : task_queue[k].buf_id = b
    \/ \E w \in DOMAIN workers :
          workers[w].st = "task" /\ workers[w].task.buf_id = b

\* C5: the producer refills buffer b only in a step that takes b's count to
\* zero, and then no task of b is still in the task queue or held by a
\* worker that has not finished its write.
C5_RefillOnlyUnreferenced ==
    [][\A b \in DOMAIN buf_alloc_counts :
          Refills(b) => (buf_alloc_counts[b] = 1 /\ ~Referenced(b))]_vars

\* a buffer already used for an earlier chunk has just been refilled
C5_Witness ==
    /\ pc = "send"
    /\ cur.i = 0 /\ cur.r = 0
    /\ \E k \in 1..Len(enqueued) : enqueued[k].buf_id = cur.buf_id

\* C6: with the producer and the workers scheduled fairly and no I/O error,
\* every run of an accepted configuration eventually returns.
C6_EventuallyReturns == <>(pc \in {"done", "panic"})

\* C7: when the function returns Ok, exactly total_output_size bytes have
\* been scheduled, no task is in the task queue or in a worker, and no
\* task's bytes are still waiting in a BufWriter instead of the output.
C7_AllWrittenAtReturn ==
    Returned =>
        /\ total_written = total_len
        /\ task_queue = <<>>
        /\ \A w \in DOMAIN workers :
              /\ workers[w].st \notin {"task", "written"}
              /\ workers[w].bw.data = <<>>

\* C8: after a worker's seek or write failed the function never returns Ok.
C8_WriteErrorNotOk ==
    (\E w \in DOMAIN workers : workers[w].st = "failed") => ~Returned

\* buffers holding chunk content with a nonzero count
LiveBuffers ==
    {b \in DOMAIN buf_alloc_counts :
        /\ buf_alloc_counts[b] > 0
        /\ \/ pc = "send" /\ cur.buf_id = b
           \/ \E k \in 1..Len(enqueued) : enqueued[k].buf_id = b}

\* C9: with a ceiling smaller than the total output size, the number of
\* live buffers never exceeds ceiling / buf_size.
C9_LiveBuffersBounded ==
    (cfg.max_mem_usage < total_len /\ buf_size > 0) =>
        Cardinality(LiveBuffers) <= cfg.max_mem_usage \div buf_size

\* bounded mode with as many live buffers as the ceiling allows
C9_Witness ==
    /\ ~unlimited_mem
    /\ cfg.max_mem_usage < total_len
    /\ buf_size > 0
    /\ LiveBuffers # {}
    /\ Cardinality(LiveBuffers) = cfg.max_mem_usage \div buf_size

\* the configuration was rejected by the check of buf_size against the
\* ceiling
Rejected ==
    /\ pc = "panic"
    /\ NFiles > 0
    /\ ~CeilingAccepted(ChooseBufSize)

\* C10: when a configuration is rejected because buf_size exceeds the
\* ceiling, the output file has not been created or resized and no worker
\* has been started.
C10_RejectedBeforeOutputIO ==
    Rejected =>
        /\ ~outCreated
        /\ outFile = <<>>
        /\ \A w \in DOMAIN workers : workers[w].st = "unspawned"

\* C11: every task the producer has enqueued for the chunk of file fid at
\* intra-file offset foffset, global pass i and per-file repetition r has
\* the destination i*(sum_of_lengths*R_each) + prefix_len[fid]*R_each
\* + r*file_len[fid] + foffset.
C11_TaskOffsetIsPlanned ==
    \A k \in 1..Len(enqueued) :
        enqueued[k].offset =
            PlannedOffset(enqueued[k].i, enqueued[k].fid, enqueued[k].r,
                          enqueued[k].foffset)

\* the producer spins on a full task queue
ProducerSpinsOnFullTaskQueue ==
    pc = "send" /\ Len(task_queue) >= TaskQueueCap

\* worker w spins on a full free-buffer queue
WorkerSpinsOnFullFreeQueue(w) ==
    workers[w].st = "written" /\ Len(buffer_free) >= FreeQueueCap(n_bufs)

\* C12: there is no reachable state in which the producer spins on a full
\* task queue while every worker spins on a full free-buffer queue.
C12_NoBackpressureDeadlock ==
    ~(/\ ProducerSpinsOnFullTaskQueue
      /\ \A w \in DOMAIN workers : WorkerSpinsOnFullFreeQueue(w))

\* tasks of buffer b in the task queue or in a worker that has not yet
\* sent their notification
TasksInFlight(b) ==
    Cardinality({k \in 1..Len(task_queue) : task_queue[k].buf_id = b})
      + Cardinality({w \in DOMAIN workers :
                        /\ workers[w].st \in {"task", "written"}
                        /\ workers[w].task.buf_id = b})

\* notifications of buffer b waiting in the free-buffer queue
Notifications(b) ==
    Cardinality({k \in 1..Len(buffer_free) : buffer_free[k] = b})

\* buffer b has been filled at least once
Filled(b) ==
    \/ pc = "send" /\ cur.buf_id = b
    \/ \E k \in 1..Len(enqueued) : enqueued[k].buf_id = b

\* tasks of the chunk in buffer b that the producer has still to enqueue
NotYetEnqueued(b) ==
    IF pc = "send" /\ cur.buf_id = b
    THEN cfg.repeat_each * cfg.repeat_all
           - (cur.i * cfg.repeat_each + cur.r)
    ELSE 0

TrueChunkLen(t) ==
    IF file_sizes[t.fid] - t.foffset < buf_size
    THEN file_sizes[t.fid] - t.foffset
    ELSE buf_size

\* C14: every enqueued task writes only the bytes actually read for its
\* chunk, and the bytes-scheduled counter, increased by the true chunk
\* length per task, never exceeds total_output_size.
C14_PartialChunkTrueLength ==
    /\ \A k \in 1..Len(enqueued) : enqueued[k].len = TrueChunkLen(enqueued[k])
    /\ total_written <= total_len

\* the pool and the queues have been set up (the configuration was accepted)
Configured == pc \in {"spawn", "recv", "send", "drain", "done"}

\* v is the largest source length
IsLargestSource(v) ==
    /\ \E f \in 1..NFiles : file_sizes[f] = v
    /\ \A f \in 1..NFiles : file_sizes[f] <= v

\* the pool holds exactly n buffers
PoolHas(n) == n_bufs = n /\ DOMAIN buf_alloc_counts = 0..(n - 1)

\* C15 as stated: if the ceiling is at least the total output size, exactly
\* one buffer of the largest source length is used; otherwise buf_size is
\* one page and n_bufs = min(total_output_size, ceiling) / buf_size.
C15_CapacitySelectionAsStated ==
    Configured =>
        IF cfg.max_mem_usage >= total_len
        THEN PoolHas(1) /\ IsLargestSource(buf_size)
        ELSE /\ buf_size = PageSize
             /\ PoolHas(Min(total_len, cfg.max_mem_usage) \div buf_size)

\* C15 amended: for an accepted configuration, if the ceiling is greater
\* than the sum of the source lengths, buf_size is the largest source
\* length and n_bufs = (sum of the source lengths) / buf_size, at least 1;
\* otherwise buf_size is one page and
\* n_bufs = min(sum of the source lengths, ceiling) / buf_size.
C15_CapacitySelection ==
    Configured =>
        IF cfg.max_mem_usage > SumTo(cfg.files, Len(cfg.files))
        THEN /\ IsLargestSource(buf_size)
             /\ PoolHas(SumTo(cfg.files, Len(cfg.files)) \div buf_size)
             /\ n_bufs >= 1
        ELSE /\ buf_size = PageSize
             /\ PoolHas(Min(SumTo(cfg.files, Len(cfg.files)),
                            cfg.max_mem_usage) \div buf_size)

\* a ceiling between the sum of the sources and the total output size,
\* served by more than one buffer of the largest source length
C15_Witness ==
    /\ Configured
    /\ cfg.max_mem_usage > SumTo(cfg.files, Len(cfg.files))
    /\ cfg.max_mem_usage < total_len
    /\ n_bufs > 1
    /\ IsLargestSource(buf_size)

\* C16: a ceiling exactly equal to the buffer size the configuration
\* selects (one page in bounded mode) is accepted: the run is not rejected.
C16_CeilingEqualToBufSizeAccepted ==
    (/\ NFiles > 0
     /\ ChooseBufSize > 0
     /\ cfg.max_mem_usage = ChooseBufSize) => pc # "panic"

\* 0-based index of the chunk the k-th enqueued task belongs to, when
\* every chunk is enqueued R_each * R_all times
ChunkIndex(k) == (k - 1) \div (cfg.repeat_each * cfg.repeat_all)

\* the tasks enqueued so far come in blocks of R_each * R_all per chunk, and
\* later blocks are of a later source, or of the same source at a larger
\* intra-file offset
EnqueuedInFileOrder ==
    \A j, k \in 1..Len(enqueued) :
        j < k =>
            IF ChunkIndex(j) = ChunkIndex(k)
            THEN /\ enqueued[j].fid = enqueued[k].fid
                 /\ enqueued[j].foffset = enqueued[k].foffset
            ELSE \/ enqueued[j].fid < enqueued[k].fid
                 \/ /\ enqueued[j].fid = enqueued[k].fid
                    /\ enqueued[j].foffset < enqueued[k].foffset

\* C18: chunks of one source are read and scheduled in strictly increasing
\* intra-file offset order, sources are consumed in list order, and a read
\* (a step that moves a source's cursor) happens only when all
\* R_each * R_all tasks of every earlier chunk have been enqueued.
C18_ScheduledInOrder ==
    [][/\ EnqueuedInFileOrder'
       /\ cursors' # cursors =>
             /\ pc # "send"
             /\ Len(enqueued) % (cfg.repeat_each * cfg.repeat_all) = 0]_vars

\* two chunks of one source and a chunk of a later source have been enqueued
C18_Witness ==
    \E j, k, l \in 1..Len(enqueued) :
        /\ j < k /\ k < l
        /\ enqueued[j].fid = enqueued[k].fid
        /\ enqueued[j].foffset < enqueued[k].foffset
        /\ enqueued[k].fid < enqueued[l].fid

\* the step that creates the output and sets its size
SizeSetStep == ~outCreated /\ outCreated'

\* C19: the output's size is set to total_output_size exactly once (the
\* producer never creates or resizes it again), in a step that is complete
\* before any worker has opened its handle and before any task exists, and
\* every run past its first step has taken it.
C19_SizedOnceBeforeWorkers ==
    [][/\ outCreated => outCreated'
       /\ pc' # "start" => outCreated'
       /\ SizeSetStep =>
             /\ Len(outFile') = total_len
             /\ \A w \in DOMAIN workers : workers'[w].st = "unspawned"
             /\ enqueued' = <<>> /\ task_queue' = <<>>
       /\ (\E w \in DOMAIN workers : workers'[w].st # "unspawned")
             => outCreated
       /\ (outFile' # outFile /\ ~SizeSetStep) => workers' # workers]_vars

\* a worker has written a task into the sized output
C19_Witness ==
    /\ outCreated
    /\ \E w \in DOMAIN workers :
          workers[w].st = "written" /\ Len(outFile) >= total_len

\* C20: whenever the producer is about to receive an identifier b from the
\* free-buffer queue, in the scheduling loop or in the drain loop, b's
\* count is at least 1, so the decrement does not underflow.
C20_DecrementNeverUnderflows ==
    (pc \in {"recv", "drain"} /\ buffer_free # <<>>) =>
        buf_alloc_counts[Head(buffer_free)] >= 1

\* a notification arrives after every source has been read to its end
C20_Witness ==
    /\ pc \in {"recv", "drain"}
    /\ buffer_free # <<>>
    /\ Readable = {}
    /\ enqueued # <<>>

\* the source lengths with the zero-length sources removed, in order
RECURSIVE NonEmptyOf(_, _)
NonEmptyOf(s, n) ==
    IF n = 0 THEN <<>>
    ELSE IF s[n] > 0 THEN Append(NonEmptyOf(s, n - 1), s[n])
    ELSE NonEmptyOf(s, n - 1)

Removed == NonEmptyOf(cfg.files, Len(cfg.files))

\* the index a non-empty source f has in the list without the empty ones
Renumbered(f) == Cardinality({g \in 1..f : cfg.files[g] > 0})

\* the chunks (source, intra-file offset) read from the sources s with
\* buffers of bs bytes, in reading order
RECURSIVE ChunksFrom(_, _, _, _)
ChunksFrom(s, f, off, bs) ==
    IF f > Len(s) THEN <<>>
    ELSE IF off >= s[f] THEN ChunksFrom(s, f + 1, 0, bs)
    ELSE <<<<f, off>>>> \o ChunksFrom(s, f, off + bs, bs)

\* the run with the list s is rejected or panics while configuring
PanicsFor(s) ==
    \/ Len(s) = 0
    \/ IF cfg.max_mem_usage > SumTo(s, Len(s))
       THEN MaxOf(s, Len(s)) = 0 \/ ~(MaxOf(s, Len(s)) < cfg.max_mem_usage)
       ELSE ~(PageSize < cfg.max_mem_usage)

====
